---- MODULE Spec2Model ----
(***************************************************************************)
(* A model of streamlit_app.py: the CT-e extraction function               *)
(* extrair_dados_cte, the table-name helpers, the app_users functions and  *)
(* the script run of a logged-in session (upload loop, insert, dashboard   *)
(* load).                                                                  *)
(*                                                                         *)
(* Text that the code inspects character by character (unit, quantity,     *)
(* freight value, emission timestamp, observation, table names) is a       *)
(* sequence of one-character strings.  Text that is only passed through is *)
(* a TLA+ string.  Python's None is the empty tuple, a present value v is  *)
(* the one-element tuple <<v>>.                                            *)
(***************************************************************************)
EXTENDS Integers, Sequences, FiniteSets, TLC

None == <<>>
Some(v) == <<v>>

(***************************************************************************)
(* Bounds of the model.                                                    *)
(***************************************************************************)
MaxUnitLen == 3
MaxQtyLen == 3
MaxNameLen == 3
MaxBatch == 2
MaxTemps == 2

(***************************************************************************)
(* Characters.                                                             *)
(***************************************************************************)
LowerLetters ==
    <<"a","b","c","d","e","f","g","h","i","j","k","l","m",
      "n","o","p","q","r","s","t","u","v","w","x","y","z">>
UpperLetters ==
    <<"A","B","C","D","E","F","G","H","I","J","K","L","M",
      "N","O","P","Q","R","S","T","U","V","W","X","Y","Z">>
Digits == <<"0","1","2","3","4","5","6","7","8","9">>

Range(f) == {f[i] : i \in DOMAIN f}

LowerSet == Range(LowerLetters)
UpperSet == Range(UpperLetters)
DigitSet == Range(Digits)

IsLower(c) == c \in LowerSet
IsUpper(c) == c \in UpperSet
IsDigit(c) == c \in DigitSet
IsSpace(c) == c \in {" ", "\t", "\n"}

IndexOf(c, f) == CHOOSE i \in DOMAIN f : f[i] = c
DigitVal(c) == IndexOf(c, Digits) - 1

\* str.upper(), one character
UpperChar(c) == IF IsLower(c) THEN UpperLetters[IndexOf(c, LowerLetters)] ELSE c
\* str.lower(), one character
LowerChar(c) == IF IsUpper(c) THEN LowerLetters[IndexOf(c, UpperLetters)] ELSE c

\* str.upper()
Upper(s) == [i \in DOMAIN s |-> UpperChar(s[i])]

\* str.strip(): drops leading and trailing whitespace
RECURSIVE LStrip(_)
LStrip(s) == IF s # <<>> /\ IsSpace(Head(s)) THEN LStrip(Tail(s)) ELSE s
RECURSIVE RStrip(_)
RStrip(s) ==
    IF s # <<>> /\ IsSpace(s[Len(s)]) THEN RStrip(SubSeq(s, 1, Len(s) - 1)) ELSE s
Strip(s) == RStrip(LStrip(s))

\* s[:n]
Prefix(s, n) == SubSeq(s, 1, IF Len(s) < n THEN Len(s) ELSE n)

\* every sequence over S of length at most n
SeqsUpTo(S, n) == UNION {[1..k -> S] : k \in 0..n}

\* " ".join(parts)
RECURSIVE JoinSpace(_)
JoinSpace(parts) ==
    IF parts = <<>> THEN <<>>
    ELSE IF Len(parts) = 1 THEN parts[1]
    ELSE parts[1] \o <<" ">> \o JoinSpace(Tail(parts))

(***************************************************************************)
(* float(text).  The texts of the model are built from digits, ".", ",",   *)
(* "-", "+" and whitespace, so the decimal forms are covered: optional     *)
(* surrounding whitespace, an optional sign, digits with at most one "."   *)
(* and at least one digit.  Anything else raises ValueError.  The value is *)
(* <<mantissa, fraction digits>> with trailing zeros of the fraction       *)
(* removed, so that equal numbers have equal values ("1.50" = "1.5").      *)
(***************************************************************************)
RECURSIVE DigitsValue(_)
DigitsValue(s) ==
    IF s = <<>> THEN 0 ELSE DigitsValue(SubSeq(s, 1, Len(s) - 1)) * 10 + DigitVal(s[Len(s)])

RECURSIVE Pow10(_)
Pow10(n) == IF n = 0 THEN 1 ELSE 10 * Pow10(n - 1)

RECURSIVE NormNum(_, _)
NormNum(m, f) ==
    IF f > 0 /\ m % 10 = 0 THEN NormNum(m \div 10, f - 1) ELSE <<m, f>>

OnlyDigits(s) == SelectSeq(s, IsDigit)

ParseFloat(text) ==
    LET t    == Strip(text)
        neg  == t # <<>> /\ t[1] = "-"
        body == IF t # <<>> /\ t[1] \in {"-", "+"} THEN Tail(t) ELSE t
        dots == {i \in DOMAIN body : body[i] = "."}
        wellformed ==
            /\ \A i \in DOMAIN body : IsDigit(body[i]) \/ body[i] = "."
            /\ Cardinality(dots) <= 1
            /\ \E i \in DOMAIN body : IsDigit(body[i])
        frac == IF dots = {} THEN 0 ELSE Len(body) - (CHOOSE i \in dots : TRUE)
        mant == DigitsValue(OnlyDigits(body))
    IN  IF wellformed
        THEN [ok |-> TRUE, val |-> NormNum(IF neg THEN 0 - mant ELSE mant, frac)]
        ELSE [ok |-> FALSE, val |-> <<0, 0>>]

\* lines 199-202 and 203-206:  float(x) if x else None, None on any exception
ToFloatOrNone(raw) ==
    IF raw = None \/ raw[1] = <<>> THEN None
    ELSE LET r == ParseFloat(raw[1]) IN IF r.ok THEN Some(r.val) ELSE None

(***************************************************************************)
(* datetime.strptime(text, "%Y-%m-%d").date().  %Y is four digits, %m is   *)
(* 1[0-2]|0[1-9]|[1-9], %d is 3[01]|[12]\d|0[1-9]|[1-9]| [1-9], the whole  *)
(* text must match, and the date must exist in the calendar.               *)
(***************************************************************************)
IsLeap(y) == (y % 4 = 0 /\ y % 100 # 0) \/ y % 400 = 0
DaysInMonth(y, m) ==
    IF m = 2 THEN (IF IsLeap(y) THEN 29 ELSE 28)
    ELSE IF m \in {4, 6, 9, 11} THEN 30 ELSE 31

MatchesMonth(s) ==
    \/ Len(s) = 2 /\ s[1] = "1" /\ s[2] \in {"0", "1", "2"}
    \/ Len(s) = 2 /\ s[1] = "0" /\ IsDigit(s[2]) /\ s[2] # "0"
    \/ Len(s) = 1 /\ IsDigit(s[1]) /\ s[1] # "0"

MatchesDay(s) ==
    \/ Len(s) = 2 /\ s[1] = "3" /\ s[2] \in {"0", "1"}
    \/ Len(s) = 2 /\ s[1] \in {"1", "2"} /\ IsDigit(s[2])
    \/ Len(s) = 2 /\ s[1] = "0" /\ IsDigit(s[2]) /\ s[2] # "0"
    \/ Len(s) = 1 /\ IsDigit(s[1]) /\ s[1] # "0"
    \/ Len(s) = 2 /\ s[1] = " " /\ IsDigit(s[2]) /\ s[2] # "0"

Strptime(text) ==
    LET n == Len(text)
        splits == {lm \in 1..2 :
                     /\ n >= 4 + 1 + lm + 1 + 1
                     /\ \A i \in 1..4 : IsDigit(text[i])
                     /\ text[5] = "-"
                     /\ MatchesMonth(SubSeq(text, 6, 5 + lm))
                     /\ text[6 + lm] = "-"
                     /\ MatchesDay(SubSeq(text, 7 + lm, n))}
    IN  IF splits = {} THEN [ok |-> FALSE, val |-> <<0, 0, 0>>]
        ELSE LET lm == CHOOSE x \in splits : TRUE
                 y  == DigitsValue(SubSeq(text, 1, 4))
                 m  == DigitsValue(SubSeq(text, 6, 5 + lm))
                 d  == DigitsValue(OnlyDigits(SubSeq(text, 7 + lm, n)))
             IN  IF y >= 1 /\ d <= DaysInMonth(y, m)
                 THEN [ok |-> TRUE, val |-> <<y, m, d>>]
                 ELSE [ok |-> FALSE, val |-> <<0, 0, 0>>]

\* date.strftime("%B").capitalize()
MonthNames ==
    <<"January", "February", "March", "April", "May", "June", "July",
      "August", "September", "October", "November", "December">>

(***************************************************************************)
(* The plate pattern  \b[A-Z]{3}\d{1,4}[A-Z0-9]{0,3}\b  and findall.       *)
(***************************************************************************)
IsWordChar(c) == IsLower(c) \/ IsUpper(c) \/ IsDigit(c) \/ c = "_"

\* \b between position i-1 and position i of s (i in 1..Len(s)+1)
WordBoundary(s, i) ==
    LET before == i > 1 /\ IsWordChar(s[i - 1])
        after  == i <= Len(s) /\ IsWordChar(s[i])
    IN  before # after

\* The (digits, tail) lengths with which the pattern matches at position i.
PlateMatches(s, i) ==
    {dk \in (1..4) \X (0..3) :
        LET d == dk[1]
            k == dk[2]
            e == i + 3 + d + k - 1
        IN  /\ e <= Len(s)
            /\ WordBoundary(s, i)
            /\ \A j \in i..(i + 2) : IsUpper(s[j])
            /\ \A j \in (i + 3)..(i + 2 + d) : IsDigit(s[j])
            /\ \A j \in (i + 3 + d)..e : IsUpper(s[j]) \/ IsDigit(s[j])
            /\ WordBoundary(s, e + 1)}

\* The match the regex engine returns at i: greedy digits first, then the tail.
PlateEnd(s, i) ==
    LET ms == PlateMatches(s, i)
        d  == CHOOSE x \in {m[1] : m \in ms} : \A m \in ms : m[1] <= x
        k  == CHOOSE x \in {m[2] : m \in {mm \in ms : mm[1] = d}} :
                 \A m \in {mm \in ms : mm[1] = d} : m[2] <= x
    IN  i + 3 + d + k - 1

\* padrao.findall(inf_obs): successive non-overlapping matches, left to right
RECURSIVE FindPlates(_, _)
FindPlates(s, i) ==
    IF i > Len(s) THEN <<>>
    ELSE IF PlateMatches(s, i) # {}
         THEN <<SubSeq(s, i, PlateEnd(s, i))>> \o FindPlates(s, PlateEnd(s, i) + 1)
         ELSE FindPlates(s, i + 1)

\* lines 191-197
ExtractPlacas(inf_obs) ==
    IF inf_obs = None \/ inf_obs[1] = <<>> THEN <<>>
    ELSE JoinSpace(FindPlates(inf_obs[1], 1))

(***************************************************************************)
(* extrair_dados_cte.  A document is either not well-formed XML (ET.parse  *)
(* raises) or a bag of optional texts, one per node the function looks up. *)
(***************************************************************************)
LitreUnits ==
    {<<"L","I","T","R","O">>, <<"L","T">>, <<"L","T","S">>}

\* line 208 with the unit compared as written, neither trimmed nor upper-cased
QuantidadeLitrosAsWritten(quantidade, unidade) ==
    IF unidade # None /\ unidade[1] # <<>> /\ unidade[1] \in LitreUnits
    THEN quantidade ELSE None

\* line 208
QuantidadeLitros(quantidade, unidade) ==
    IF unidade # None /\ unidade[1] # <<>> /\ Upper(Strip(unidade[1])) \in LitreUnits
    THEN quantidade ELSE None

\* lines 183-189: the date and the month; raises when strptime raises
TratarData(dhEmi) ==
    IF dhEmi # None /\ dhEmi[1] # <<>>
    THEN LET r == Strptime(Prefix(dhEmi[1], 10))
         IN  [raised |-> ~r.ok,
              data   |-> IF r.ok THEN Some(r.val) ELSE None,
              mes    |-> IF r.ok THEN MonthNames[r.val[2]] ELSE ""]
    ELSE [raised |-> FALSE, data |-> None, mes |-> ""]

\* lines 166-224: None, or the one-element tuple holding the record
extrair_dados_cte(doc) ==
    IF ~doc.wellformed THEN None
    ELSE LET dt == TratarData(doc.dhEmi)
             quantidade == ToFloatOrNone(doc.qCarga)
         IN  IF dt.raised THEN None
             ELSE Some([data              |-> dt.data,
                        mes               |-> dt.mes,
                        numero_cte        |-> doc.nCT,
                        transportador     |-> doc.xNome,
                        placa             |-> ExtractPlacas(doc.xObs),
                        produto           |-> doc.proPred,
                        cidade_origem     |-> doc.xMunIni,
                        cidade_destino    |-> doc.xMunFim,
                        quantidade_litros |-> QuantidadeLitros(quantidade, doc.xOutCat),
                        valor_frete       |-> ToFloatOrNone(doc.vTPrest)])

(***************************************************************************)
(* Table names and the store.  The store is PostgreSQL reached through     *)
(* SQLAlchemy: db.users is app_users (username -> row), db.tables maps the *)
(* identifier of every table created so far to its rows, oldest first.     *)
(***************************************************************************)

\* line 52: re.match(r"^[a-zA-Z0-9_]+$", name).  In Python "$" matches at the
\* end of the text and also just before a newline that ends the text.
is_valid_table_name(name) ==
    LET core == IF name # <<>> /\ name[Len(name)] = "\n"
                THEN SubSeq(name, 1, Len(name) - 1) ELSE name
    IN  core # <<>> /\ \A i \in DOMAIN core : IsWordChar(core[i])

\* The table that a statement text with {tabela} interpolated unquoted
\* (lines 59, 118, 362) names: surrounding whitespace is not part of the
\* identifier, and PostgreSQL folds an unquoted identifier to lower case.
SqlIdent(tabela) == LET t == Strip(tabela) IN [i \in DOMAIN t |-> LowerChar(t[i])]

\* Whether the store executes a statement on the unquoted {tabela}: accept is
\* the store's own answer (connectivity, constraints); an identifier that
\* starts with a digit is a syntax error.
StoreAccepts(accept, tabela) ==
    accept /\ SqlIdent(tabela) # <<>> /\ ~IsDigit(SqlIdent(tabela)[1])

\* CREATE TABLE IF NOT EXISTS ident (...)
CreateTableIfNotExists(tables, ident) ==
    IF ident \in DOMAIN tables THEN tables ELSE tables @@ (ident :> <<>>)

\* One entry of the log of a script run or call: a name check (line 52) or a
\* statement handed to the store.
CheckEv(name, ok) == [ev |-> "check", name |-> name, ok |-> ok]
SqlEv(stmt, name, ok) == [ev |-> stmt, name |-> name, ok |-> ok]

\* lines 54-73
ensure_table_exists(db, tabela, accept) ==
    IF ~is_valid_table_name(tabela)
    THEN [db |-> db, raised |-> TRUE, log |-> <<CheckEv(tabela, FALSE)>>]
    ELSE IF ~StoreAccepts(accept, tabela)
    THEN [db |-> db, raised |-> TRUE,
          log |-> <<CheckEv(tabela, TRUE), SqlEv("create", tabela, FALSE)>>]
    ELSE [db |-> [db EXCEPT !.tables = CreateTableIfNotExists(@, SqlIdent(tabela))],
          raised |-> FALSE,
          log |-> <<CheckEv(tabela, TRUE), SqlEv("create", tabela, TRUE)>>]

\* werkzeug's generate_password_hash / check_password_hash, the salt left out
generate_password_hash(password) == <<"hash", password>>
check_password_hash(pwhash, password) == pwhash = <<"hash", password>>

\* the INSERT as an upsert: ON CONFLICT (username) DO UPDATE
InsertUserOnConflictDoUpdate(users, username, row) ==
    [u \in (DOMAIN users) \cup {username} |-> IF u = username THEN row ELSE users[u]]

\* lines 108-115: INSERT ... ON CONFLICT (username) DO NOTHING
InsertUserOnConflictDoNothing(users, username, row) ==
    IF username \in DOMAIN users THEN users ELSE users @@ (username :> row)

\* lines 100-132; both statements run in one transaction (engine.begin)
create_user(db, username, password, tabela, is_admin, accept) ==
    IF username = "" \/ tabela = <<>>
    THEN [db |-> db, raised |-> TRUE, log |-> <<>>]
    ELSE IF ~is_valid_table_name(tabela)
    THEN [db |-> db, raised |-> TRUE, log |-> <<CheckEv(tabela, FALSE)>>]
    ELSE IF ~accept
    THEN [db |-> db, raised |-> TRUE,
          log |-> <<CheckEv(tabela, TRUE), SqlEv("insert_user", tabela, FALSE)>>]
    ELSE IF ~StoreAccepts(accept, tabela)
    THEN [db |-> db, raised |-> TRUE,
          log |-> <<CheckEv(tabela, TRUE), SqlEv("insert_user", tabela, TRUE),
                    SqlEv("create", tabela, FALSE)>>]
    ELSE [db |-> [users  |-> InsertUserOnConflictDoNothing(db.users, username,
                                [password_hash |-> generate_password_hash(password),
                                 tabela        |-> tabela,
                                 is_admin      |-> is_admin]),
                  tables |-> CreateTableIfNotExists(db.tables, SqlIdent(tabela))],
          raised |-> FALSE,
          log |-> <<CheckEv(tabela, TRUE), SqlEv("insert_user", tabela, TRUE),
                    SqlEv("create", tabela, TRUE)>>]

\* lines 134-138
delete_user(db, username, accept) ==
    IF username = "" \/ ~accept
    THEN [db |-> db, raised |-> TRUE, log |-> <<>>]
    ELSE [db |-> [db EXCEPT !.users =
                     [u \in (DOMAIN db.users) \ {username} |-> db.users[u]]],
          raised |-> FALSE, log |-> <<>>]

\* lines 92-98
get_user(db, username) ==
    IF username \in DOMAIN db.users THEN Some(db.users[username]) ELSE None

(***************************************************************************)
(* The documents uploaded in the model.                                    *)
(***************************************************************************)
TsJan15 == <<"2","0","2","4","-","0","1","-","1","5","T","1","0",":","0","0">>
TsFeb01 == <<"2","0","2","4","-","0","2","-","0","1","T","0","8",":","3","0">>
TsSlashes == <<"1","5","/","0","1","/","2","0","2","4">>

DocJan ==
    [wellformed |-> TRUE, nCT |-> Some("1001"), dhEmi |-> Some(TsJan15),
     xMunIni |-> Some("Santos"), xMunFim |-> Some("Campinas"),
     xNome |-> Some("Transportes X"), proPred |-> Some("DIESEL"),
     xOutCat |-> Some(<<"L","t","s">>), qCarga |-> Some(<<"1","5","0",".","5">>),
     vTPrest |-> Some(<<"9","8",".","5","0">>),
     xObs |-> Some(<<"P"," ","A","B","C","1","2","3","4"," ","x">>)]
DocFeb ==
    [DocJan EXCEPT !.nCT = Some("1002"), !.dhEmi = Some(TsFeb01),
                   !.xOutCat = Some(<<"K","G">>), !.qCarga = Some(<<"2","0">>),
                   !.vTPrest = Some(<<"2","0">>), !.xObs = None]
DocBadDate == [DocJan EXCEPT !.nCT = Some("1003"), !.dhEmi = Some(TsSlashes)]
DocMalformed ==
    [wellformed |-> FALSE, nCT |-> None, dhEmi |-> None, xMunIni |-> None,
     xMunFim |-> None, xNome |-> None, proPred |-> None, xOutCat |-> None,
     qCarga |-> None, vTPrest |-> None, xObs |-> None]

Docs == {DocJan, DocFeb, DocMalformed}

Batches == SeqsUpTo(Docs, MaxBatch)

\* extrair_dados_cte on the documents of the model, evaluated once
Extracted == [d \in Docs |-> extrair_dados_cte(d)]

(***************************************************************************)
(* The upload loop, the insert and the dashboard load of a script run.     *)
(***************************************************************************)

\* lines 317-322, one pass of the loop body: the temporary file is made with
\* delete=False and nothing in the file unlinks it; info is the result of
\* extrair_dados_cte, which warns (line 223) exactly when it returns None.
LoopStep(acc, info) ==
    [dados     |-> IF info # None THEN Append(acc.dados, info[1]) ELSE acc.dados,
     temps     |-> acc.temps + 1,
     warned    |-> IF info = None THEN acc.warned + 1 ELSE acc.warned,
     processed |-> acc.processed + 1]

\* the loop leaving at the first upload that yields no record
RECURSIVE UploadLoopAborting(_, _, _)
UploadLoopAborting(arquivos, i, acc) ==
    IF i > Len(arquivos) THEN acc
    ELSE IF Extracted[arquivos[i]] = None
    THEN LoopStep(acc, Extracted[arquivos[i]])
    ELSE UploadLoopAborting(arquivos, i + 1, LoopStep(acc, Extracted[arquivos[i]]))

\* lines 315-322
RECURSIVE UploadLoop(_, _, _)
UploadLoop(arquivos, i, acc) ==
    IF i > Len(arquivos) THEN acc
    ELSE UploadLoop(arquivos, i + 1, LoopStep(acc, Extracted[arquivos[i]]))

LoopStart == [dados |-> <<>>, temps |-> 0, warned |-> 0, processed |-> 0]

\* The value a DECIMAL(14,2) column (line 70) keeps of a number: rounded to
\* two fraction digits, half away from zero.
RoundCents(v) ==
    IF v[2] <= 2 THEN v
    ELSE LET p == Pow10(v[2] - 2)
             a == IF v[1] < 0 THEN 0 - v[1] ELSE v[1]
             q == (a + p \div 2) \div p
         IN  NormNum(IF v[1] < 0 THEN 0 - q ELSE q, 2)

\* A table made by the CREATE TABLE statement of lines 58-73 has the folded
\* identifier as its name and the DECIMAL column; one made by to_sql from the
\* frame has the frame's float column.
HasDecimalColumn(ident) == ident = SqlIdent(ident)

StoredRow(ident, rec) ==
    IF HasDecimalColumn(ident) /\ rec.valor_frete # None
    THEN [rec EXCEPT !.valor_frete = Some(RoundCents(rec.valor_frete[1]))]
    ELSE rec

StoredRows(ident, recs) == [i \in DOMAIN recs |-> StoredRow(ident, recs[i])]

\* to_sql sending the rows one statement at a time with no enclosing
\* transaction: a rejection leaves the rows sent before it
ToSqlRowByRow(tables, tabela, recs, outcome) ==
    LET t == CreateTableIfNotExists(tables, tabela)
    IN  IF outcome = "ok"
        THEN [t EXCEPT ![tabela] = @ \o StoredRows(tabela, recs)]
        ELSE [t EXCEPT ![tabela] = @ \o StoredRows(tabela, SubSeq(recs, 1, Len(recs) - 1))]

\* line 338: df.to_sql(tabela, if_exists="append", method="multi").  pandas
\* addresses the table by the exact name (SQLAlchemy quotes a name that is not
\* all lower case), creates it when no table of that exact name exists, and
\* sends the rows as one INSERT inside one transaction.  outcome is the store's
\* answer: "ok", "rejected" (nothing is kept) or "rejected_rows" (the table
\* creation was committed before the INSERT was rejected).
ToSql(tables, tabela, recs, outcome) ==
    IF outcome = "ok"
    THEN LET t == CreateTableIfNotExists(tables, tabela)
         IN  [t EXCEPT ![tabela] = @ \o StoredRows(tabela, recs)]
    ELSE IF outcome = "rejected_rows"
    THEN CreateTableIfNotExists(tables, tabela)
    ELSE tables

\* ORDER BY data DESC: PostgreSQL puts NULLs first when descending
DateLess(a, b) ==
    \/ a[1] < b[1]
    \/ a[1] = b[1] /\ a[2] < b[2]
    \/ a[1] = b[1] /\ a[2] = b[2] /\ a[3] < b[3]

\* row x must come strictly before row y
SortsBefore(x, y) ==
    \/ x.data = None /\ y.data # None
    \/ x.data # None /\ y.data # None /\ DateLess(y.data[1], x.data[1])

IndexOrders(n) == {p \in [1..n -> 1..n] : \A i, j \in 1..n : p[i] = p[j] => i = j}

\* line 362: the results the SELECT may return; rows of equal date come in any
\* order.
SelectOrderByDataDesc(rows) ==
    {[i \in DOMAIN rows |-> rows[p[i]]] :
        p \in {q \in IndexOrders(Len(rows)) :
                 \A i, j \in 1..Len(rows) :
                    i < j => ~SortsBefore(rows[q[j]], rows[q[i]])}}

\* lines 360-366: the frames the dashboard may load, with the raised flag
DashboardLoad(tables, tabela, accept) ==
    IF StoreAccepts(accept, tabela) /\ SqlIdent(tabela) \in DOMAIN tables
    THEN {[df_banco |-> r, raised |-> FALSE] :
             r \in SelectOrderByDataDesc(tables[SqlIdent(tabela)])}
    ELSE {[df_banco |-> <<>>, raised |-> TRUE]}

\* lines 336-341: the insert, once the table is ensured
InsertRows(ens, tabela, loop, outcome) ==
    [db      |-> [ens.db EXCEPT !.tables = ToSql(@, tabela, loop.dados, outcome)],
     loop    |-> loop,
     stopped |-> FALSE,
     insert  |-> IF outcome = "ok" THEN "ok" ELSE "failed",
     log     |-> ens.log \o <<SqlEv("append", tabela, outcome = "ok")>>]

\* lines 329-341: st.stop() when ensure_table_exists raised, else the insert
AfterEnsure(ens, tabela, loop, fail) ==
    IF ens.raised
    THEN [db |-> ens.db, loop |-> loop, stopped |-> TRUE, insert |-> "none",
          log |-> ens.log]
    ELSE InsertRows(ens, tabela, loop,
                    IF fail \in {"rejected", "rejected_rows"} THEN fail ELSE "ok")

\* lines 314 and 324: nothing is written without uploads or without records
AfterLoop(db, tabela, arquivos, loop, fail) ==
    IF arquivos = <<>> \/ loop.dados = <<>>
    THEN [db |-> db, loop |-> IF arquivos = <<>> THEN LoopStart ELSE loop,
          stopped |-> FALSE, insert |-> "none", log |-> <<>>]
    ELSE AfterEnsure(ensure_table_exists(db, tabela, fail # "create"),
                     tabela, loop, fail)

\* lines 303-352: the main interface up to the export
MainInterface(db, tabela, arquivos, fail) ==
    AfterLoop(db, tabela, arquivos, UploadLoop(arquivos, 1, LoopStart), fail)

(***************************************************************************)
(* State.                                                                  *)
(*   db        the store: app_users and the tables                         *)
(*   session   st.session_state (lines 19-21, 242-245)                     *)
(*   arquivos  the uploads held by the file_uploader widget (line 312)     *)
(*   tmpfiles  the number of temporary files on disk                       *)
(*   run       what the last script run did                                *)
(*   docIn, infoOut    input and result of a call of extrair_dados_cte     *)
(*   nameIn, nameOut   input and result of a call of ensure_table_exists   *)
(*                     or create_user                                      *)
(***************************************************************************)
VARIABLES db, session, arquivos, tmpfiles, run, docIn, infoOut, nameIn, nameOut

vars == <<db, session, arquivos, tmpfiles, run, docIn, infoOut, nameIn, nameOut>>

\* line 153
CteAdmin == <<"c","t","e","_","a","d","m","i","n">>
\* st.secrets["admin"]
AdminUsername == "adm"
AdminPassword == "p"

EmptyDb == [users |-> <<>>, tables |-> <<>>]

\* lines 78-87 and 144-161: app_users exists; when it is empty the admin of the
\* secrets is created, any exception ignored.
Startup(d) ==
    IF DOMAIN d.users = {}
    THEN create_user(d, AdminUsername, AdminPassword, CteAdmin, TRUE, TRUE).db
    ELSE d

\* lines 19-21
NoSession == [logged_in |-> FALSE, user |-> None, tabela |-> None, is_admin |-> FALSE]

NoInput == [user |-> "", table |-> <<>>, fail |-> "none"]

NoRun ==
    [kind |-> "none", input |-> NoInput, form |-> "none", loop |-> LoopStart,
     stopped |-> FALSE,
     insert |-> "none", log |-> <<>>, loaded |-> FALSE, load_raised |-> FALSE,
     df_banco |-> <<>>]

\* what the store may do to a script run: nothing, or reject one statement
FailPoints == {"none", "create", "rejected", "rejected_rows", "select"}

\* what is typed into the login page and the admin forms
FormUsers == {"adm", "u1"}
FormPasswords == {"p", "q"}
FormNewUsers ==
    {[user |-> "u1",  pass |-> "q", table |-> <<"a">>,     admin |-> FALSE],
     [user |-> "u1",  pass |-> "p", table |-> <<"A">>,     admin |-> TRUE],
     [user |-> "adm", pass |-> "q", table |-> <<"a">>,     admin |-> FALSE],
     [user |-> "u1",  pass |-> "q", table |-> <<"a",";">>, admin |-> FALSE],
     [user |-> "u1",  pass |-> "q", table |-> <<>>,        admin |-> FALSE]}

(***************************************************************************)
(* Script runs.                                                            *)
(***************************************************************************)

\* lines 275-279 and 292-296: st.success, or st.error when the call raised
FormOutcome(r, user, table, accept) ==
    [db |-> r.db, form |-> IF r.raised THEN "error" ELSE "success", log |-> r.log,
     input |-> [user |-> user, table |-> table,
                fail |-> IF accept THEN "none" ELSE "form"]]

\* lines 271-279
FormCreateUser(d, new_user, new_pass, new_table, new_is_admin, accept) ==
    IF new_user = "" \/ new_pass = "" \/ new_table = <<>>
    THEN [db |-> d, form |-> "warning", log |-> <<>>,
          input |-> [user |-> new_user, table |-> new_table,
                     fail |-> IF accept THEN "none" ELSE "form"]]
    ELSE FormOutcome(create_user(d, new_user, new_pass, new_table, new_is_admin, accept),
                     new_user, new_table, accept)

\* lines 290-298
FormDeleteUser(d, del_user, accept) ==
    IF del_user = ""
    THEN [db |-> d, form |-> "warning", log |-> <<>>,
          input |-> [user |-> del_user, table |-> <<>>,
                     fail |-> IF accept THEN "none" ELSE "form"]]
    ELSE FormOutcome(delete_user(d, del_user, accept), del_user, <<>>, accept)

\* lines 360-366: the dashboard load, unless st.stop() ended the run (line 334)
Dashboard(kind, f, m, tabela, fail) ==
    IF m.stopped
    THEN run' = [kind |-> kind, input |-> f.input, form |-> f.form, loop |-> m.loop,
                 stopped |-> TRUE, insert |-> m.insert, log |-> f.log \o m.log,
                 loaded |-> FALSE, load_raised |-> FALSE, df_banco |-> <<>>]
    ELSE \E ld \in DashboardLoad(m.db.tables, tabela, fail # "select") :
            run' = [kind |-> kind, input |-> f.input, form |-> f.form, loop |-> m.loop,
                    stopped |-> FALSE, insert |-> m.insert,
                    log |-> f.log \o m.log \o <<SqlEv("select", tabela, ~ld.raised)>>,
                    loaded |-> TRUE, load_raised |-> ld.raised,
                    df_banco |-> ld.df_banco]

\* the effects of the main interface m and of the dashboard load
Effects(kind, f, files, m, tabela, fail) ==
    /\ tmpfiles + Len(files) <= MaxTemps
    /\ tmpfiles' = tmpfiles + m.loop.temps
    /\ arquivos' = files
    /\ db' = m.db
    /\ Dashboard(kind, f, m, tabela, fail)

\* lines 303-366: what follows the admin panel in a script run; f is the
\* outcome of the admin form, files are the uploads
Rest(kind, f, files, fail) ==
    Effects(kind, f, files, MainInterface(f.db, session.tabela[1], files, fail),
            session.tabela[1], fail)

\* A browser opens the app: a fresh st.session_state and an empty uploader.
NewSession ==
    /\ session' = NoSession
    /\ arquivos' = <<>>
    /\ run' = NoRun
    /\ db' = Startup(db)
    /\ UNCHANGED <<tmpfiles, docIn, infoOut, nameIn, nameOut>>

\* lines 241-250: a good password logs in and reruns the script (st.rerun),
\* which then shows the main interface with no uploads and the dashboard
LoggedIn(d, username, row) ==
    /\ session' = [logged_in |-> TRUE, user |-> Some(username),
                   tabela |-> Some(row.tabela), is_admin |-> row.is_admin]
    /\ \E ld \in DashboardLoad(d.tables, row.tabela, TRUE) :
          run' = [NoRun EXCEPT !.kind = "login",
                    !.log = <<SqlEv("select", row.tabela, ~ld.raised)>>,
                    !.loaded = TRUE, !.load_raised = ld.raised,
                    !.df_banco = ld.df_banco]

\* lines 236-254
CheckLogin(d, username, password, row) ==
    /\ IF row # None /\ check_password_hash(row[1].password_hash, password)
       THEN LoggedIn(d, username, row[1])
       ELSE /\ session' = session
            /\ run' = [NoRun EXCEPT !.kind = "login_failed"]
    /\ db' = d

\* lines 231-255: the login page with "Entrar" pressed
Login(username, password) ==
    /\ ~session.logged_in
    /\ CheckLogin(Startup(db), username, password, get_user(Startup(db), username))
    /\ arquivos' = <<>>
    /\ UNCHANGED <<tmpfiles, docIn, infoOut, nameIn, nameOut>>

\* The uploader's content changes (or the page is reloaded): a script run with
\* no form submitted.
UploadRun(files, fail) ==
    /\ session.logged_in
    /\ Rest("upload", [db |-> Startup(db), form |-> "none", log |-> <<>>,
                       input |-> [NoInput EXCEPT !.fail = fail]], files, fail)
    /\ UNCHANGED <<session, docIn, infoOut, nameIn, nameOut>>

\* form_create_user is submitted: the run creates the user, then goes on to the
\* main interface with the uploads the widget still holds.
CreateUserRun(new_user, new_pass, new_table, new_is_admin, fail) ==
    /\ session.logged_in /\ session.is_admin
    /\ Rest("create_user",
            FormCreateUser(Startup(db), new_user, new_pass, new_table, new_is_admin,
                           fail # "form"),
            arquivos, fail)
    /\ UNCHANGED <<session, docIn, infoOut, nameIn, nameOut>>

\* form_delete_user is submitted.
DeleteUserRun(del_user, fail) ==
    /\ session.logged_in /\ session.is_admin
    /\ Rest("delete_user", FormDeleteUser(Startup(db), del_user, fail # "form"),
            arquivos, fail)
    /\ UNCHANGED <<session, docIn, infoOut, nameIn, nameOut>>

Init ==
    /\ db = EmptyDb
    /\ session = NoSession
    /\ arquivos = <<>>
    /\ tmpfiles = 0
    /\ run = NoRun
    /\ docIn = DocMalformed
    /\ infoOut = None
    /\ nameIn = <<>>
    /\ nameOut = None

Next ==
    \/ NewSession
    \/ \E u \in FormUsers, p \in FormPasswords : Login(u, p)
    \/ \E files \in Batches, fail \in FailPoints : UploadRun(files, fail)
    \/ \E n \in FormNewUsers, fail \in {"none", "form"} :
          CreateUserRun(n.user, n.pass, n.table, n.admin, fail)
    \/ \E u \in FormUsers \cup {""}, fail \in {"none", "form"} : DeleteUserRun(u, fail)

Spec == Init /\ [][Next]_vars

(***************************************************************************)
(* extrair_dados_cte on its own: a document is drawn, the function is      *)
(* called once.  infoOut is None before the call and <<result>> after it.  *)
(***************************************************************************)
UnitChars == {"L", "t", "S", " "}
QtyChars == {"1", "."}

UnitTexts ==
    SeqsUpTo(UnitChars, MaxUnitLen)
        \cup {<<"L","I","T","R","O">>, <<"l","i","t","r","o">>,
              <<" ","L","i","t","r","o","\t">>, <<"L","I","T","R","O","S">>,
              <<"l","t","s">>, <<"K","G">>, <<"L"," ","T">>}
QtyTexts ==
    SeqsUpTo(QtyChars, MaxQtyLen)
        \cup {<<"1","5","0",".","5">>, <<" ","-","2"," ">>, <<"+","1">>, <<"-">>,
              <<"1",",","5">>, <<",">>, <<"1"," ","1">>}

DateYears == {<<"2","0","2","4">>, <<"2","0","2","3">>, <<"0","0","0","0">>}
DateMonths == {<<"0","1">>, <<"2">>, <<"0","2">>, <<"1","3">>, <<"0","0">>, <<"x","x">>}
DateDays == {<<"1","5">>, <<"5">>, <<"2","9">>, <<"3","0">>, <<"3","1">>, <<"0">>, <<" ","5">>}
DateSeps == {<<"-">>, <<"/">>}
DateTails == {<<>>, <<"T","1","0",":","0","0">>}

DateTexts ==
    {y \o sep \o m \o sep \o d \o t :
        y \in DateYears, sep \in DateSeps, m \in DateMonths, d \in DateDays,
        t \in DateTails}
    \cup {<<>>, <<"2","0","2","4">>, <<"2","0","2","4","-","0","1">>,
          <<"2","0","2","4","-","0","1","-">>, TsSlashes, TsJan15}

ObsTexts ==
    {<<"A","B","C","1","2","3","4">>,
     <<"A","B","C","1","D","2","3",",","X","Y","Z","9","9","9","9","9">>,
     <<"a","A","B","C","1"," ","A","B","C","1","_"," ","Q","R","S","1">>,
     <<>>}

Opt(S) == {None} \cup {Some(x) : x \in S}

ExtractDocs ==
    {[DocJan EXCEPT !.xOutCat = u, !.qCarga = q] :
        u \in Opt(UnitTexts), q \in Opt(QtyTexts)}
    \cup {[DocJan EXCEPT !.dhEmi = d, !.vTPrest = v] :
            d \in Opt(DateTexts), v \in {None, Some(<<"2","0">>), Some(<<"x">>)}}
    \cup {[DocJan EXCEPT !.xObs = o, !.nCT = n] :
            o \in Opt(ObsTexts), n \in {None, Some("1001")}}
    \cup {DocMalformed}

InitExtract ==
    /\ docIn \in ExtractDocs
    /\ infoOut = None
    /\ db = EmptyDb
    /\ session = NoSession
    /\ arquivos = <<>>
    /\ tmpfiles = 0
    /\ run = NoRun
    /\ nameIn = <<>>
    /\ nameOut = None

\* a call of extrair_dados_cte(docIn)
Extract ==
    /\ infoOut = None
    /\ infoOut' = Some(extrair_dados_cte(docIn))
    /\ UNCHANGED <<db, session, arquivos, tmpfiles, run, docIn, nameIn, nameOut>>

NextExtract == Extract

SpecExtract == InitExtract /\ [][NextExtract]_vars

(***************************************************************************)
(* ensure_table_exists and create_user on their own: a name is drawn and   *)
(* one of them is called on the store as the first script run leaves it.   *)
(* nameOut is None before the call and <<result>> after it.                *)
(***************************************************************************)
NameChars == {"a", "Z", "_", ";", "\n"}
NameTexts == SeqsUpTo(NameChars, MaxNameLen)

InitName ==
    /\ nameIn \in NameTexts
    /\ nameOut = None
    /\ db = Startup(EmptyDb)
    /\ session = NoSession
    /\ arquivos = <<>>
    /\ tmpfiles = 0
    /\ run = NoRun
    /\ docIn = DocMalformed
    /\ infoOut = None

\* a call of ensure_table_exists(nameIn)
CallEnsure(accept) ==
    /\ nameOut = None
    /\ nameOut' = Some([op |-> "ensure_table_exists"]
                       @@ ensure_table_exists(db, nameIn, accept))
    /\ UNCHANGED <<db, session, arquivos, tmpfiles, run, docIn, infoOut, nameIn>>

\* a call of create_user("u1", "q", nameIn)
CallCreateUser(accept) ==
    /\ nameOut = None
    /\ nameOut' = Some([op |-> "create_user"]
                       @@ create_user(db, "u1", "q", nameIn, FALSE, accept))
    /\ UNCHANGED <<db, session, arquivos, tmpfiles, run, docIn, infoOut, nameIn>>

\* the call is made again on the store the first call left
CallAgain(accept) ==
    /\ nameOut # None
    /\ nameOut[1].op \in {"ensure_table_exists", "create_user"}
    /\ nameOut' =
         Some([op |-> "again", first |-> nameOut[1].db]
              @@ (IF nameOut[1].op = "ensure_table_exists"
                  THEN ensure_table_exists(nameOut[1].db, nameIn, accept)
                  ELSE create_user(nameOut[1].db, "u1", "q", nameIn, FALSE, accept)))
    /\ UNCHANGED <<db, session, arquivos, tmpfiles, run, docIn, infoOut, nameIn>>

NextName ==
    \/ \E accept \in BOOLEAN : CallEnsure(accept)
    \/ \E accept \in BOOLEAN : CallCreateUser(accept)
    \/ \E accept \in BOOLEAN : CallAgain(accept)

SpecName == InitName /\ [][NextName]_vars

(***************************************************************************)
(* Claims about extrair_dados_cte (SpecExtract).                           *)
(***************************************************************************)
Called == infoOut # None
Returned == Called /\ infoOut[1] # None
Record == infoOut[1][1]

\* the two characters are the same letter in either case, or the same character
SameLetter(x, y) ==
    \/ x = y
    \/ \E n \in DOMAIN LowerLetters : {x, y} = {LowerLetters[n], UpperLetters[n]}

EqualIgnoringCase(a, b) ==
    Len(a) = Len(b) /\ \A k \in DOMAIN a : SameLetter(a[k], b[k])

\* a litre synonym, in any case, with nothing but whitespace around it
IsLitreText(u) ==
    \E i \in 1..Len(u), j \in 1..Len(u) :
        /\ i <= j
        /\ \E syn \in LitreUnits : EqualIgnoringCase(SubSeq(u, i, j), syn)
        /\ \A k \in 1..(i - 1) : IsSpace(u[k])
        /\ \A k \in (j + 1)..Len(u) : IsSpace(u[k])

\* C1: whenever extrair_dados_cte returns a record, quantidade_litros is the
\* parsed declared quantity if the unit text is a litre synonym (LITRO, LT,
\* LTS in any case, surrounded by whitespace only), and is absent for an
\* absent unit and for every other unit text, whether the quantity parsed or
\* not.
C1_LitrosOnlyForLitreUnit ==
    Returned =>
        IF docIn.xOutCat # None /\ IsLitreText(docIn.xOutCat[1])
        THEN Record.quantidade_litros = ToFloatOrNone(docIn.qCarga)
        ELSE Record.quantidade_litros = None

\* C1 witness: a lower-case, padded litre unit whose quantity was kept
C1_Witness ==
    /\ Returned
    /\ docIn.xOutCat = Some(<<" ", "L", "t">>)
    /\ docIn.qCarga = Some(<<"1", ".", "1">>)
    /\ Record.quantidade_litros = Some(<<11, 1>>)

\* the timestamp is present and its first ten characters are no YYYY-MM-DD date
MalformedDate(doc) ==
    /\ doc.wellformed
    /\ doc.dhEmi # None
    /\ doc.dhEmi[1] # <<>>
    /\ ~Strptime(Prefix(doc.dhEmi[1], 10)).ok

\* C2: for a well-formed document whose emission timestamp is present but
\* malformed, the call returns a record whose date is absent and whose month
\* is the empty string, the other fields extracted as usual.
C2_MalformedDateKeepsRecord ==
    (Called /\ MalformedDate(docIn)) =>
        /\ Returned
        /\ Record.data = None
        /\ Record.mes = ""
        /\ Record.numero_cte = docIn.nCT
        /\ Record.valor_frete = ToFloatOrNone(docIn.vTPrest)

(***************************************************************************)
(* Claims about the table-name check (SpecName).                           *)
(***************************************************************************)
\* one or more characters, each of A-Z, a-z, 0-9 or underscore
NamingInvariant(name) ==
    /\ name # <<>>
    /\ \A i \in DOMAIN name : IsUpper(name[i]) \/ IsLower(name[i]) \/ IsDigit(name[i])
                                \/ name[i] = "_"

\* a statement the store executed
Executed(e) == e.ev # "check" /\ e.ok

\* C5: for every name that violates the naming invariant, ensure_table_exists
\* and create_user raise before any statement reaches the store: the store is
\* left as it was (no table, no user row).
C5_InvalidNameFailsBeforeAnyStatement ==
    (nameOut # None /\ nameOut[1].op # "again" /\ ~NamingInvariant(nameIn)) =>
        /\ nameOut[1].raised
        /\ \A i \in DOMAIN nameOut[1].log : ~Executed(nameOut[1].log[i])
        /\ nameOut[1].db = db

(***************************************************************************)
(* Claims about the script runs (Spec).                                    *)
(***************************************************************************)
RanMain == run.kind \in {"upload", "create_user", "delete_user"}

Parsed(files) == {i \in DOMAIN files : Extracted[files[i]] # None}

RowsOf(tables, ident) == IF ident \in DOMAIN tables THEN tables[ident] ELSE <<>>

\* the tenant's table holds no row, under the name as written or as folded
FreshTable(tables, tabela) ==
    RowsOf(tables, tabela) = <<>> /\ RowsOf(tables, SqlIdent(tabela)) = <<>>

\* C4: round trip.  A run that ingests a batch of N valid documents into a
\* fresh tenant table and then loads that tenant's table loads exactly the N
\* records of the batch, field for field, in the order of the batch.
C4_RoundTrip ==
    [][(/\ session.logged_in
        /\ FreshTable(db.tables, session.tabela[1])
        /\ RanMain'
        /\ run'.insert = "ok"
        /\ Len(run'.loop.dados) = Len(arquivos')
        /\ run'.loaded /\ ~run'.load_raised)
       => run'.df_banco = run'.loop.dados]_vars

\* C6: after a successful ingestion the records of the batch are in the
\* consolidated ledger, that is, in some table other than the tenant's own.
C6_LedgerHoldsBatch ==
    (RanMain /\ run.insert = "ok") =>
        \E t \in DOMAIN db.tables :
            /\ t \notin {session.tabela[1], SqlIdent(session.tabela[1])}
            /\ \A i \in DOMAIN run.loop.dados :
                  \E k \in DOMAIN db.tables[t] :
                      db.tables[t][k] = StoredRow(t, run.loop.dados[i])

\* C7: once the processing of a batch has finished, no temporary file made
\* for it is left.
C7_NoTempFileLeft ==
    (RanMain /\ run.loop.processed > 0) => tmpfiles = 0

\* C8: an append is all-or-nothing.  When the store rejects it no table has a
\* row more or less than before the run, the failure is reported and the
\* append was tried once; when the store accepts it the tenant's table holds
\* its former rows followed by the batch.
C8_AppendAllOrNothing ==
    [][(RanMain' /\ run'.insert # "none") =>
         /\ Len(SelectSeq(run'.log, LAMBDA e : e.ev = "append")) = 1
         /\ IF run'.insert = "failed"
            THEN /\ \A t \in (DOMAIN db.tables) \cup (DOMAIN db'.tables) :
                       RowsOf(db'.tables, t) = RowsOf(db.tables, t)
                 /\ \E i \in DOMAIN run'.log : run'.log[i].ev = "append" /\ ~run'.log[i].ok
            ELSE /\ RowsOf(db'.tables, session.tabela[1])
                       = RowsOf(db.tables, session.tabela[1])
                           \o StoredRows(session.tabela[1], run'.loop.dados)
                 /\ \A t \in ((DOMAIN db.tables) \cup (DOMAIN db'.tables))
                                \ {session.tabela[1]} :
                       RowsOf(db'.tables, t) = RowsOf(db.tables, t)]_vars

\* C8 witness: a rejected append of a batch of two rows, none of which is in
\* the table
C8_Witness ==
    /\ RanMain
    /\ run.insert = "failed"
    /\ Len(run.loop.dados) = 2
    /\ session.tabela = Some(CteAdmin)
    /\ RowsOf(db.tables, CteAdmin) = <<>>

\* C9: in every script run of a logged-in session a statement on the tenant
\* table (its creation, the append, the dashboard SELECT) is executed only
\* after the name has passed the check of is_valid_table_name in that run.
C9_CheckedBeforeEveryStatement ==
    \A i \in DOMAIN run.log :
        run.log[i].ev \in {"create", "append", "select"} =>
            \E j \in 1..(i - 1) : run.log[j] = CheckEv(run.log[i].name, TRUE)

\* C10: create_user on a username that exists leaves that user's row as it
\* was and raises nothing for the conflict: when the store accepts the
\* statements the form reports success and the table named by the new call
\* exists.  No create_user call changes the row of an existing user.
C10_ExistingUserKept ==
    [][(run'.kind = "create_user") =>
         /\ \A u \in DOMAIN Startup(db).users :
               u \in DOMAIN db'.users /\ db'.users[u] = Startup(db).users[u]
         /\ (/\ run'.input.user \in DOMAIN Startup(db).users
             /\ NamingInvariant(run'.input.table)
             /\ ~IsDigit(run'.input.table[1])
             /\ run'.input.fail = "none")
            => /\ run'.form = "success"
               /\ SqlIdent(run'.input.table) \in DOMAIN db'.tables]_vars

\* C10 witness: the admin of the secrets "created" again with another password
\* and table: the form reported success, the table exists, the row is the old
\* one
C10_Witness ==
    /\ run.kind = "create_user"
    /\ run.input.user = "adm"
    /\ run.input.table = <<"a">>
    /\ run.form = "success"
    /\ <<"a">> \in DOMAIN db.tables
    /\ "adm" \in DOMAIN db.users
    /\ db.users["adm"].tabela = CteAdmin
    /\ db.users["adm"].password_hash = generate_password_hash(AdminPassword)

====
